---- MODULE Spec2Model ----
(***************************************************************************)
(* Sets and their Elements (src/src/setandelement.cpp): the shared         *)
(* attribute store of CommonSE, the merge of incoming values (updateWith), *)
(* the encrypted-attribute lifecycle and the cache encoding.               *)
(*                                                                         *)
(* Strings are sequences of bytes.  An optional value (a unique_ptr) is a  *)
(* sequence of length 0 (null) or 1 (the pointee).  A string_map is a      *)
(* function from its keys to their values.                                 *)
(***************************************************************************)
EXTENDS Integers, Sequences, FiniteSets, TLC

VARIABLES se, last, d

vars == <<se, last, d>>

(* ------------------------------ bounds -------------------------------- *)

\* timestamps of the merge model range over 0..MaxTs
MaxTs == 1
\* orders of the merge model range over 0..MaxOrder
MaxOrder == 1

(* ------------------------- optional values ---------------------------- *)

Null == <<>>

Some(v) == <<v>>

IsNull(p) == Len(p) = 0

Deref(p) == p[1]

(* ------------------------------ strings ------------------------------- *)

EmptyStr == <<>>

nameTag == <<110>>

coverTag == <<99>>

Tags == {nameTag, coverTag}

Values == {EmptyStr, <<65>>, <<66>>}

\* std::string operator< : lexicographic on bytes
RECURSIVE StrLess(_, _)
StrLess(a, b) ==
    IF Len(b) = 0 THEN FALSE
    ELSE IF Len(a) = 0 THEN TRUE
    ELSE IF a[1] # b[1] THEN a[1] < b[1]
    ELSE StrLess(Tail(a), Tail(b))

(* ----------------------------- string_map ----------------------------- *)

EmptyMap == [t \in {} |-> EmptyStr]

Maps == UNION {[D -> Values] : D \in SUBSET Tags}

OptMaps == {Null} \cup {Some(m) : m \in Maps}

\* map::erase(key)
MapErase(m, k) == [t \in (DOMAIN m) \ {k} |-> m[t]]

\* map::operator[](key) = value
MapPut(m, k, v) == [t \in (DOMAIN m) \cup {k} |-> IF t = k THEN v ELSE m[t]]

\* the first key of a non-empty set of keys in the map's iteration order
FirstKey(K) == CHOOSE k \in K : \A o \in K \ {k} : StrLess(k, o)

(* ------------------------------ CommonSE ------------------------------ *)

getAttr(mAttrs, tag) ==
    IF IsNull(mAttrs) THEN EmptyStr
    ELSE IF tag \in DOMAIN Deref(mAttrs) THEN Deref(mAttrs)[tag]
    ELSE EmptyStr

setAttr(mAttrs, tag, value) ==
    LET a == IF IsNull(mAttrs) THEN EmptyMap ELSE Deref(mAttrs)
    IN  Some(MapPut(a, tag, value))

\* the loop of rebaseCommonAttrsOn over the entries of *mAttrs still to visit
RECURSIVE RebaseLoop(_, _, _)
RebaseLoop(rebased, attrs, K) ==
    IF K = {} THEN rebased
    ELSE LET k == FirstKey(K)
         IN  IF attrs[k] = EmptyStr
             THEN RebaseLoop(MapErase(rebased, k), attrs, K \ {k})
             ELSE RebaseLoop(MapPut(rebased, k, attrs[k]), attrs, K \ {k})

\* variant of rebaseCommonAttrsOn: an empty local value inherits the base's
\* value instead of erasing the tag (C2_RebaseIdempotentWhenNothingToUndo
\* tells it from the code)
M_rebaseCommonAttrsOn_NoErase(mAttrs, baseAttrs) ==
    IF IsNull(baseAttrs) THEN mAttrs
    ELSE LET a == IF IsNull(mAttrs) THEN EmptyMap ELSE Deref(mAttrs)
             b == Deref(baseAttrs)
             r == [t \in (DOMAIN a) \cup (DOMAIN b) |->
                      IF t \in DOMAIN a /\ a[t] # EmptyStr THEN a[t]
                      ELSE IF t \in DOMAIN b THEN b[t] ELSE a[t]]
         IN  IF DOMAIN r = {} THEN Null ELSE Some(r)

\* variant of rebaseCommonAttrsOn: an empty result stays allocated
\* (C3_RebaseResult tells it from the code)
M_rebaseCommonAttrsOn_KeepEmpty(mAttrs, baseAttrs) ==
    IF IsNull(baseAttrs) THEN mAttrs
    ELSE LET a == IF IsNull(mAttrs) THEN EmptyMap ELSE Deref(mAttrs)
             r == IF DOMAIN a = {} THEN Deref(baseAttrs)
                  ELSE RebaseLoop(Deref(baseAttrs), a, DOMAIN a)
         IN  Some(r)

rebaseCommonAttrsOn(mAttrs, baseAttrs) ==
    IF IsNull(baseAttrs) THEN mAttrs
    ELSE LET a == IF IsNull(mAttrs) THEN EmptyMap ELSE Deref(mAttrs)
             r == IF DOMAIN a = {} THEN Deref(baseAttrs)
                  ELSE RebaseLoop(Deref(baseAttrs), a, DOMAIN a)
         IN  IF DOMAIN r = {} THEN Null ELSE Some(r)

hasAttrChanged(mAttrs, tag, otherAttrs) ==
    LET otherValue == IF IsNull(otherAttrs) THEN EmptyStr
                      ELSE IF tag \in DOMAIN Deref(otherAttrs)
                           THEN Deref(otherAttrs)[tag] ELSE EmptyStr
    IN  getAttr(mAttrs, tag) # otherValue

(* ------------------------------ entities ------------------------------ *)

CH_NAME == "CH_NAME"

CH_COVER == "CH_COVER"

CH_EL_NAME == "CH_EL_NAME"

CH_EL_ORDER == "CH_EL_ORDER"

\* the blob of a ReceivedEncrypted entity
Blob == <<7>>

\* an entity as its constructor leaves it: no timestamp, no order, no changes
NewEntity(kind, id, key, user, sid, node, attrs, eattrs) ==
    [kind |-> kind, mId |-> id, mKey |-> key, mAttrs |-> attrs, mTs |-> 0,
     mEncryptedAttrs |-> eattrs, mChanges |-> {},
     mUser |-> user, mSetId |-> sid, mNodeHandle |-> node,
     mOrder |-> Null, mAttrsClearedByLastUpdate |-> FALSE]

\* the attribute states an entity is received or constructed in:
\* NotReceived, ReceivedEmpty, ReceivedEncrypted, Decrypted
ReceivedStates ==
    {<<Null, Null>>, <<Some(EmptyStr), Some(EmptyMap)>>, <<Some(Blob), Null>>}
    \cup {<<Null, Some(m)>> : m \in Maps}

setChanged(e, changeType) == [e EXCEPT !.mChanges = @ \cup {changeType}]

changes(e) == e.mChanges # {}

hasAttrs(e) == ~IsNull(e.mAttrs)

hasAttrsClearedByLastUpdate(e) == e.mAttrsClearedByLastUpdate

hasOrder(e) == ~IsNull(e.mOrder)

order(e) == IF IsNull(e.mOrder) THEN 0 ELSE Deref(e.mOrder)

setTs(e, ts) == [e EXCEPT !.mTs = ts]

\* variant of decryptAttributes: f's output map is installed before f's
\* result is looked at (C4_FailedDecryptInert tells it from the code)
M_decryptAttributes_SwapFirst(e, fOk, fOut) ==
    IF IsNull(e.mEncryptedAttrs)
    THEN [se |-> e, ret |-> TRUE, called |-> FALSE]
    ELSE IF Deref(e.mEncryptedAttrs) = EmptyStr
    THEN [se |-> [e EXCEPT !.mAttrs = Some(EmptyMap), !.mEncryptedAttrs = Null],
          ret |-> TRUE, called |-> FALSE]
    ELSE IF fOk
    THEN [se |-> [e EXCEPT !.mAttrs = Some(fOut), !.mEncryptedAttrs = Null],
          ret |-> TRUE, called |-> TRUE]
    ELSE [se |-> [e EXCEPT !.mAttrs = Some(fOut)], ret |-> FALSE, called |-> TRUE]

\* variant of decryptAttributes: the blob is discarded on failure too
\* (C10_DecryptKeepsStateMachine tells it from the code)
M_decryptAttributes_DropBlob(e, fOk, fOut) ==
    IF IsNull(e.mEncryptedAttrs)
    THEN [se |-> e, ret |-> TRUE, called |-> FALSE]
    ELSE IF Deref(e.mEncryptedAttrs) = EmptyStr
    THEN [se |-> [e EXCEPT !.mAttrs = Some(EmptyMap), !.mEncryptedAttrs = Null],
          ret |-> TRUE, called |-> FALSE]
    ELSE IF fOk
    THEN [se |-> [e EXCEPT !.mAttrs = Some(fOut), !.mEncryptedAttrs = Null],
          ret |-> TRUE, called |-> TRUE]
    ELSE [se |-> [e EXCEPT !.mEncryptedAttrs = Null], ret |-> FALSE, called |-> TRUE]

\* decryptAttributes(f): f reports fOk and leaves fOut in its output map;
\* called: whether f was invoked
decryptAttributes(e, fOk, fOut) ==
    IF IsNull(e.mEncryptedAttrs)
    THEN [se |-> e, ret |-> TRUE, called |-> FALSE]
    ELSE IF Deref(e.mEncryptedAttrs) = EmptyStr
    THEN [se |-> [e EXCEPT !.mAttrs = Some(EmptyMap), !.mEncryptedAttrs = Null],
          ret |-> TRUE, called |-> FALSE]
    ELSE IF fOk
    THEN [se |-> [e EXCEPT !.mAttrs = Some(fOut), !.mEncryptedAttrs = Null],
          ret |-> TRUE, called |-> TRUE]
    ELSE [se |-> e, ret |-> FALSE, called |-> TRUE]

\* encryptAttributes(f): f returns fBlob
encryptAttributes(e, fBlob) ==
    IF IsNull(e.mAttrs) \/ DOMAIN Deref(e.mAttrs) = {}
    THEN [ret |-> EmptyStr, called |-> FALSE]
    ELSE [ret |-> fBlob, called |-> TRUE]

\* variant of Set::updateWith: the maps are swapped before the comparisons
\* (C6_SetChangeBitsAccumulate tells it from the code)
M_Set_updateWith_SwapFirst(e, s) ==
    LET e1 == [setTs(e, s.mTs) EXCEPT !.mAttrs = s.mAttrs]
        e2 == IF hasAttrChanged(e1.mAttrs, nameTag, s.mAttrs)
              THEN setChanged(e1, CH_NAME) ELSE e1
        e3 == IF hasAttrChanged(e2.mAttrs, coverTag, s.mAttrs)
              THEN setChanged(e2, CH_COVER) ELSE e2
    IN  [se |-> e3, ret |-> changes(e3)]

Set_updateWith(e, s) ==
    LET e1 == setTs(e, s.mTs)
        e2 == IF hasAttrChanged(e1.mAttrs, nameTag, s.mAttrs)
              THEN setChanged(e1, CH_NAME) ELSE e1
        e3 == IF hasAttrChanged(e2.mAttrs, coverTag, s.mAttrs)
              THEN setChanged(e2, CH_COVER) ELSE e2
        e4 == [e3 EXCEPT !.mAttrs = s.mAttrs]
    IN  [se |-> e4, ret |-> changes(e4)]

\* variant of setOrder: an absent order compares as 0
\* (C8_OrderChangeDetection tells it from the code)
M_setOrder_AbsentIsZero(e, o) ==
    IF order(e) # o
    THEN setChanged([e EXCEPT !.mOrder = Some(o)], CH_EL_ORDER)
    ELSE [e EXCEPT !.mOrder = Some(o)]

setOrder(e, o) ==
    IF IsNull(e.mOrder)
    THEN setChanged([e EXCEPT !.mOrder = Some(o)], CH_EL_ORDER)
    ELSE IF Deref(e.mOrder) # o
    THEN setChanged([e EXCEPT !.mOrder = Some(o)], CH_EL_ORDER)
    ELSE e

\* variant of SetElement::updateWith: the maps are swapped whatever incoming
\* carries (C5_MemberAttrRetention tells it from the code)
M_SetElement_updateWith_AlwaysSwap(e, el) ==
    LET e1 == IF hasOrder(el) THEN setOrder(e, order(el)) ELSE e
        e2 == setTs(e1, el.mTs)
        e2c == IF hasAttrChanged(e2.mAttrs, nameTag, el.mAttrs)
               THEN setChanged(e2, CH_EL_NAME) ELSE e2
        e3 == [e2c EXCEPT !.mAttrs = el.mAttrs]
    IN  [se |-> e3, ret |-> changes(e3)]

\* variant of SetElement::updateWith: only a newer timestamp is adopted
\* (C9_UpdatePreservesIdentity tells it from the code)
M_SetElement_updateWith_NewerTs(e, el) ==
    LET e1 == IF hasOrder(el) THEN setOrder(e, order(el)) ELSE e
        e2 == IF el.mTs > e1.mTs THEN setTs(e1, el.mTs) ELSE e1
        e3 == IF hasAttrs(el) \/ hasAttrsClearedByLastUpdate(el)
              THEN LET e2c == IF hasAttrChanged(e2.mAttrs, nameTag, el.mAttrs)
                              THEN setChanged(e2, CH_EL_NAME) ELSE e2
                   IN  [e2c EXCEPT !.mAttrs = el.mAttrs]
              ELSE e2
    IN  [se |-> e3, ret |-> changes(e3)]

SetElement_updateWith(e, el) ==
    LET e1 == IF hasOrder(el) THEN setOrder(e, order(el)) ELSE e
        e2 == setTs(e1, el.mTs)
        e3 == IF hasAttrs(el) \/ hasAttrsClearedByLastUpdate(el)
              THEN LET e2c == IF hasAttrChanged(e2.mAttrs, nameTag, el.mAttrs)
                              THEN setChanged(e2, CH_EL_NAME) ELSE e2
                   IN  [e2c EXCEPT !.mAttrs = el.mAttrs]
              ELSE e2
    IN  [se |-> e3, ret |-> changes(e3)]

(* ------------------- CacheableWriter / CacheableReader ----------------- *)

\* the w low bytes of n, least significant first
RECURSIVE LE(_, _)
LE(n, w) == IF w = 0 THEN <<>> ELSE <<n % 256>> \o LE(n \div 256, w - 1)

RECURSIVE FromLE(_)
FromLE(b) == IF Len(b) = 0 THEN 0 ELSE b[1] + 256 * FromLE(Tail(b))

\* the bytes of n without its leading zero bytes, least significant first
RECURSIVE SignificantBytes(_)
SignificantBytes(n) ==
    IF n = 0 THEN <<>> ELSE <<n % 256>> \o SignificantBytes(n \div 256)

Complement(b) == [i \in 1..Len(b) |-> 255 - b[i]]

serializehandle(h) == LE(h, 8)

serializenodehandle(h) == SubSeq(LE(h, 8), 1, 6)

serializei64(v) == IF v >= 0 THEN LE(v, 8) ELSE Complement(LE(-v - 1, 8))

serializecompressed64(v) ==
    LET b == SignificantBytes(v) IN <<Len(b)>> \o b

serializestring(str) == LE(Len(str) % 65536, 2) \o SubSeq(str, 1, Len(str) % 65536)

serializeu32(n) == LE(n, 4)

serializeexpansionflags == [i \in 1..8 |-> 0]

\* a reader: whether every read so far succeeded, the next byte to read, the
\* value of the last read
Reader(ok, pos, val) == [ok |-> ok, pos |-> pos, val |-> val]

Failed(r) == Reader(FALSE, r.pos, 0)

\* a fixed-width read of w bytes
Fixed(data, r, w) ==
    IF ~r.ok THEN r
    ELSE IF r.pos + w - 1 > Len(data) THEN Failed(r)
    ELSE Reader(TRUE, r.pos + w, SubSeq(data, r.pos, r.pos + w - 1))

unserializehandle(data, r) ==
    LET f == Fixed(data, r, 8)
    IN  IF f.ok THEN Reader(TRUE, f.pos, FromLE(f.val)) ELSE f

unserializenodehandle(data, r) ==
    LET f == Fixed(data, r, 6)
    IN  IF f.ok THEN Reader(TRUE, f.pos, FromLE(f.val)) ELSE f

unserializei64(data, r) ==
    LET f == Fixed(data, r, 8)
    IN  IF ~f.ok THEN f
        ELSE IF f.val[8] >= 128
        THEN Reader(TRUE, f.pos, -FromLE(Complement(f.val)) - 1)
        ELSE Reader(TRUE, f.pos, FromLE(f.val))

unserializeu32(data, r) ==
    LET f == Fixed(data, r, 4)
    IN  IF f.ok THEN Reader(TRUE, f.pos, FromLE(f.val)) ELSE f

\* Serialize64::unserialize: the length byte, then that many bytes
unserializecompressed64(data, r) ==
    IF ~r.ok THEN r
    ELSE LET blen == Len(data) - r.pos + 1
             p == IF blen > 0 THEN data[r.pos] ELSE 0
         IN  IF p > 8 \/ p >= blen THEN Failed(r)
             ELSE Reader(TRUE, r.pos + p + 1,
                         FromLE(SubSeq(data, r.pos + 1, r.pos + p)))

unserializestring(data, r) ==
    LET l == Fixed(data, r, 2)
    IN  IF ~l.ok THEN l
        ELSE LET len == FromLE(l.val)
             IN  IF l.pos + len - 1 > Len(data) THEN Failed(r)
                 ELSE Reader(TRUE, l.pos + len,
                             SubSeq(data, l.pos, l.pos + len - 1))

unserializeexpansionflags(data, r, usedFlagCount) ==
    LET f == Fixed(data, r, 8)
    IN  IF ~f.ok THEN f
        ELSE IF \E i \in (usedFlagCount + 1)..8 : f.val[i] # 0 THEN Failed(r)
        ELSE f

(* ------------------------ serialize / unserialize ---------------------- *)

\* the loop writing the entries of *mAttrs still to write, in key order
RECURSIVE SerializeAttrs(_, _)
SerializeAttrs(attrs, K) ==
    IF K = {} THEN <<>>
    ELSE LET k == FirstKey(K)
         IN  serializestring(k) \o serializestring(attrs[k])
                 \o SerializeAttrs(attrs, K \ {k})

SerializeAttrMap(e) ==
    LET asize == IF IsNull(e.mAttrs) THEN 0 ELSE Cardinality(DOMAIN Deref(e.mAttrs))
    IN  serializeu32(asize)
            \o (IF asize # 0
                THEN SerializeAttrs(Deref(e.mAttrs), DOMAIN Deref(e.mAttrs))
                ELSE <<>>)

\* variant of Set::serialize: the attributes are not written
\* (C1_RoundTrip tells it from the code)
M_Set_serialize_NoCount(e) ==
    serializehandle(e.mId) \o serializehandle(e.mUser)
        \o serializecompressed64(e.mTs) \o serializestring(e.mKey)
        \o serializeu32(0) \o serializeexpansionflags

Set_serialize(e) ==
    serializehandle(e.mId) \o serializehandle(e.mUser)
        \o serializecompressed64(e.mTs) \o serializestring(e.mKey)
        \o SerializeAttrMap(e) \o serializeexpansionflags

SetElement_serialize(e) ==
    serializehandle(e.mSetId) \o serializehandle(e.mId)
        \o serializenodehandle(e.mNodeHandle)
        \o serializei64(IF IsNull(e.mOrder) THEN 0 ELSE Deref(e.mOrder))
        \o serializecompressed64(e.mTs) \o serializestring(e.mKey)
        \o SerializeAttrMap(e) \o serializeexpansionflags

\* the loop reading the i pairs still to read into attrs; val is the map read
RECURSIVE UnserializeAttrs(_, _, _, _)
UnserializeAttrs(data, r, i, attrs) ==
    IF i = 0 THEN Reader(TRUE, r.pos, attrs)
    ELSE LET ak == unserializestring(data, r)
             av == unserializestring(data, ak)
         IN  IF ~ak.ok \/ ~av.ok THEN Failed(r)
             ELSE UnserializeAttrs(data, av, i - 1, MapPut(attrs, ak.val, av.val))

Start == Reader(TRUE, 1, 0)

\* variant of Set::unserialize: the expansion flags are not read
\* (C7_PrefixYieldsNoValue tells it from the code)
M_Set_unserialize_NoFlags(data) ==
    LET id == unserializehandle(data, Start)
        u == unserializehandle(data, id)
        ts == unserializecompressed64(data, u)
        k == unserializestring(data, ts)
        attrCount == unserializeu32(data, k)
    IN  IF ~attrCount.ok THEN Null
        ELSE LET attrs == UnserializeAttrs(data, attrCount, attrCount.val, EmptyMap)
             IN  IF ~attrs.ok THEN Null
                 ELSE Some(setTs(NewEntity("Set", id.val, k.val, u.val, 0, 0,
                                           Some(attrs.val), Null), ts.val))

Set_unserialize(data) ==
    LET id == unserializehandle(data, Start)
        u == unserializehandle(data, id)
        ts == unserializecompressed64(data, u)
        k == unserializestring(data, ts)
        attrCount == unserializeu32(data, k)
    IN  IF ~attrCount.ok THEN Null
        ELSE LET attrs == UnserializeAttrs(data, attrCount, attrCount.val, EmptyMap)
             IN  IF ~attrs.ok THEN Null
                 ELSE IF ~unserializeexpansionflags(data, attrs, 0).ok THEN Null
                 ELSE Some(setTs(NewEntity("Set", id.val, k.val, u.val, 0, 0,
                                           Some(attrs.val), Null), ts.val))

SetElement_unserialize(data) ==
    LET sid == unserializehandle(data, Start)
        eid == unserializehandle(data, sid)
        h == unserializenodehandle(data, eid)
        o == unserializei64(data, h)
        ts == unserializecompressed64(data, o)
        k == unserializestring(data, ts)
        attrCount == unserializeu32(data, k)
    IN  IF ~attrCount.ok THEN Null
        ELSE LET attrs == UnserializeAttrs(data, attrCount, attrCount.val, EmptyMap)
             IN  IF ~attrs.ok THEN Null
                 ELSE IF ~unserializeexpansionflags(data, attrs, 0).ok THEN Null
                 ELSE Some(setTs(setOrder(NewEntity("SetElement", eid.val, k.val, 0,
                                                    sid.val, h.val, Some(attrs.val),
                                                    Null), o.val), ts.val))

(* ------------------------- the merge model ---------------------------- *)

NoArg == <<>>

\* what the last call was, what it was given and what it returned
Called(op, arg, ret) == [op |-> op, arg |-> arg, ret |-> ret]

\* the values an update source hands to updateWith
IncomingSets ==
    {[NewEntity("Set", 9, <<120>>, 8, 0, 0, a, Null) EXCEPT !.mTs = ts] :
        a \in OptMaps, ts \in 0..MaxTs}

IncomingElements ==
    {[NewEntity("SetElement", 9, <<120>>, 0, 8, 7, a, Null)
        EXCEPT !.mTs = ts, !.mOrder = o, !.mAttrsClearedByLastUpdate = c] :
        a \in OptMaps, ts \in 0..MaxTs,
        o \in {Null} \cup {Some(v) : v \in 0..MaxOrder}, c \in BOOLEAN}

Init ==
    /\ \E kind \in {"Set", "SetElement"}, st \in ReceivedStates :
          se = IF kind = "Set"
               THEN NewEntity("Set", 1, <<107>>, 2, 0, 0, st[2], st[1])
               ELSE NewEntity("SetElement", 1, <<107>>, 0, 3, 4, st[2], st[1])
    /\ last = Called("new", NoArg, NoArg)
    /\ d = <<>>

SetAttr ==
    \E tag \in Tags, value \in Values :
        /\ se' = [se EXCEPT !.mAttrs = setAttr(se.mAttrs, tag, value)]
        /\ last' = Called("setAttr", <<tag, value>>, NoArg)
        /\ UNCHANGED d

Rebase ==
    \E baseAttrs \in OptMaps :
        /\ se' = [se EXCEPT !.mAttrs = rebaseCommonAttrsOn(se.mAttrs, baseAttrs)]
        /\ last' = Called("rebaseCommonAttrsOn", baseAttrs, NoArg)
        /\ UNCHANGED d

\* the maps a decrypt function leaves in its output map
DecryptOutputs ==
    {EmptyMap, (nameTag :> <<65>>), (nameTag :> <<66>> @@ coverTag :> EmptyStr)}

Decrypt ==
    \E fOk \in BOOLEAN, fOut \in DecryptOutputs :
        LET r == decryptAttributes(se, fOk, fOut)
        IN  /\ se' = r.se
            /\ last' = Called("decryptAttributes",
                              [fOk |-> fOk, fOut |-> fOut, called |-> r.called,
                               blob |-> IF r.called THEN se.mEncryptedAttrs ELSE Null],
                              r.ret)
            /\ UNCHANGED d

Encrypt ==
    \E fBlob \in {EmptyStr, Blob} :
        LET r == encryptAttributes(se, fBlob)
        IN  /\ last' = Called("encryptAttributes", [called |-> r.called], r.ret)
            /\ UNCHANGED <<se, d>>

SetUpdateWith ==
    /\ se.kind = "Set"
    /\ \E s \in IncomingSets :
          LET r == Set_updateWith(se, s)
          IN  /\ se' = r.se
              /\ last' = Called("updateWith", s, r.ret)
              /\ UNCHANGED d

ElUpdateWith ==
    /\ se.kind = "SetElement"
    /\ \E el \in IncomingElements :
          LET r == SetElement_updateWith(se, el)
          IN  /\ se' = r.se
              /\ last' = Called("updateWith", el, r.ret)
              /\ UNCHANGED d

SetOrder ==
    /\ se.kind = "SetElement"
    /\ \E o \in 0..MaxOrder :
          /\ se' = setOrder(se, o)
          /\ last' = Called("setOrder", o, NoArg)
          /\ UNCHANGED d

Next ==
    \/ SetAttr
    \/ Rebase
    \/ Decrypt
    \/ Encrypt
    \/ SetUpdateWith
    \/ ElUpdateWith
    \/ SetOrder

Spec == Init /\ [][Next]_vars

(* ------------------------- the rebase model --------------------------- *)

\* pre: the map before the call; again: the previous call was a rebase on
\* the same base, and then first is the map before that call
RebaseTracked ==
    \E baseAttrs \in OptMaps :
        LET again == last.op = "rebaseCommonAttrsOn" /\ last.arg.base = baseAttrs
        IN  /\ se' = [se EXCEPT !.mAttrs = rebaseCommonAttrsOn(se.mAttrs, baseAttrs)]
            /\ last' = Called("rebaseCommonAttrsOn",
                              [base |-> baseAttrs, pre |-> se.mAttrs, again |-> again,
                               first |-> IF again THEN last.arg.pre ELSE se.mAttrs],
                              NoArg)
            /\ UNCHANGED d

RebaseNext ==
    \/ SetAttr
    \/ RebaseTracked

SpecRebase == Init /\ [][RebaseNext]_vars

(* ------------------------- the codec model ---------------------------- *)

CodecTs == {0, 1, 300}

CodecOrders == {-1, 0, 1, 258}

\* the entities the codec is applied to, in the states the merge model reaches
CodecSets ==
    {[NewEntity("Set", i[1], i[2], i[3], 0, 0, a, Null)
        EXCEPT !.mTs = ts, !.mChanges = ch] :
        i \in {<<0, EmptyStr, 258>>, <<258, <<107, 0>>, 1>>},
        a \in OptMaps, ts \in CodecTs, ch \in SUBSET {CH_NAME, CH_COVER}}

CodecElements ==
    {[NewEntity("SetElement", i[1], i[2], 0, i[3], i[4], a, Null)
        EXCEPT !.mTs = ts, !.mOrder = oc[1], !.mChanges = oc[2]] :
        i \in {<<0, EmptyStr, 258, 1>>, <<258, <<107, 0>>, 1, 65536>>},
        a \in OptMaps, ts \in CodecTs,
        oc \in {<<Null, ch>> : ch \in SUBSET {CH_EL_NAME}}
               \cup {<<Some(v), {CH_EL_ORDER} \cup ch>> :
                        v \in CodecOrders, ch \in SUBSET {CH_EL_NAME}}}

CodecInit ==
    /\ se \in CodecSets \cup CodecElements
    /\ last = Called("new", NoArg, NoArg)
    /\ d = <<>>

SetSerialize ==
    /\ se.kind = "Set"
    /\ d = <<>>
    /\ d' = d \o Set_serialize(se)
    /\ last' = Called("serialize", NoArg, TRUE)
    /\ UNCHANGED se

ElSerialize ==
    /\ se.kind = "SetElement"
    /\ d = <<>>
    /\ d' = d \o SetElement_serialize(se)
    /\ last' = Called("serialize", NoArg, TRUE)
    /\ UNCHANGED se

\* unserialize is handed the first n bytes of what serialize wrote
SetUnserialize ==
    /\ se.kind = "Set"
    /\ d # <<>>
    /\ \E n \in 0..Len(d) :
          last' = Called("unserialize", n, Set_unserialize(SubSeq(d, 1, n)))
    /\ UNCHANGED <<se, d>>

ElUnserialize ==
    /\ se.kind = "SetElement"
    /\ d # <<>>
    /\ \E n \in 0..Len(d) :
          last' = Called("unserialize", n, SetElement_unserialize(SubSeq(d, 1, n)))
    /\ UNCHANGED <<se, d>>

CodecNext ==
    \/ SetSerialize
    \/ ElSerialize
    \/ SetUnserialize
    \/ ElUnserialize

SpecCodec == CodecInit /\ [][CodecNext]_vars

(* ------------------------------ claims -------------------------------- *)

\* the entries of an optional map, an absent map having none
AttrContents(a) == IF IsNull(a) THEN EmptyMap ELSE Deref(a)

\* the value a reader sees for a tag, absent being empty
AttrValue(a, tag) ==
    IF tag \in DOMAIN AttrContents(a) THEN AttrContents(a)[tag] ELSE EmptyStr

FullDecode == last.op = "unserialize" /\ last.arg = Len(d)

SameIdentity(x, y) ==
    /\ x.kind = y.kind /\ x.mId = y.mId /\ x.mUser = y.mUser
    /\ x.mSetId = y.mSetId /\ x.mNodeHandle = y.mNodeHandle
    /\ x.mKey = y.mKey

\* C1 as stated: unserialize(serialize(x)) equals x field for field: ids, owner
\* or node handle, timestamp, key, attribute contents, order presence and
\* value, and change bits.
C1_RoundTripFieldForField ==
    FullDecode =>
        /\ ~IsNull(last.ret)
        /\ SameIdentity(Deref(last.ret), se)
        /\ Deref(last.ret).mTs = se.mTs
        /\ AttrContents(Deref(last.ret).mAttrs) = AttrContents(se.mAttrs)
        /\ Deref(last.ret).mOrder = se.mOrder
        /\ Deref(last.ret).mChanges = se.mChanges

\* C1 amended: unserialize(serialize(x)) has x's ids, owner or node handle,
\* timestamp, key and attribute contents; a SetElement's order comes back
\* present with x's value, an absent order as 0; the change bits are those of
\* construction: none for a Set, the order-change bit alone for a SetElement.
C1_RoundTrip ==
    FullDecode =>
        /\ ~IsNull(last.ret)
        /\ SameIdentity(Deref(last.ret), se)
        /\ Deref(last.ret).mTs = se.mTs
        /\ AttrContents(Deref(last.ret).mAttrs) = AttrContents(se.mAttrs)
        /\ se.kind = "Set" =>
              /\ IsNull(Deref(last.ret).mOrder)
              /\ Deref(last.ret).mChanges = {}
        /\ se.kind = "SetElement" =>
              /\ Deref(last.ret).mOrder =
                    Some(IF IsNull(se.mOrder) THEN 0 ELSE Deref(se.mOrder))
              /\ Deref(last.ret).mChanges = {CH_EL_ORDER}

C1_Witness ==
    /\ FullDecode
    /\ ~IsNull(last.ret)
    /\ se.kind = "SetElement"
    /\ IsNull(se.mOrder)
    /\ se.mChanges = {CH_EL_NAME}
    /\ AttrContents(se.mAttrs) = (nameTag :> <<65>> @@ coverTag :> EmptyStr)

\* C7: unserialize applied to a strict prefix of serialize(x) returns no value.
C7_PrefixYieldsNoValue ==
    (last.op = "unserialize" /\ last.arg < Len(d)) => IsNull(last.ret)

C7_Witness ==
    /\ last.op = "unserialize"
    /\ IsNull(last.ret)
    /\ DOMAIN AttrContents(se.mAttrs) = Tags
    /\ last.arg = Len(d) - 9

Rebased == last.op = "rebaseCommonAttrsOn"

SecondRebase == Rebased /\ last.arg.again

\* C2 as stated: a second rebaseCommonAttrsOn on the same base leaves the map
\* as the first call left it.
C2_RebaseIdempotent ==
    SecondRebase => AttrContents(se.mAttrs) = AttrContents(last.arg.pre)

\* the base inherits nothing the first call removed, and the first call
\* inherited no empty value
NothingToUndo(local, base) ==
    \/ IsNull(base)
    \/ /\ \A t \in DOMAIN AttrContents(local) :
              AttrContents(local)[t] = EmptyStr => t \notin DOMAIN Deref(base)
       /\ \A t \in DOMAIN Deref(base) \ DOMAIN AttrContents(local) :
              Deref(base)[t] # EmptyStr

\* C2 amended: a second rebaseCommonAttrsOn on the same base leaves the map as
\* the first call left it exactly when the base is absent, or no tag the local
\* map held with an empty value is defined in the base and the base holds no
\* empty value for a tag absent from the local map.
C2_RebaseIdempotentWhenNothingToUndo ==
    SecondRebase =>
        (NothingToUndo(last.arg.first, last.arg.base)
            <=> AttrContents(se.mAttrs) = AttrContents(last.arg.pre))

C2_Witness ==
    /\ SecondRebase
    /\ NothingToUndo(last.arg.first, last.arg.base)
    /\ ~IsNull(last.arg.base)
    /\ \E t \in DOMAIN AttrContents(last.arg.first) :
          AttrContents(last.arg.first)[t] = EmptyStr
    /\ AttrContents(se.mAttrs) # AttrContents(last.arg.first)
    /\ AttrContents(se.mAttrs) # AttrContents(last.arg.base)

\* the per-key rule: the local non-empty values, and the base's values for the
\* tags the local map does not hold
PerKeyRule(local, base) ==
    LET keep == {t \in DOMAIN local : local[t] # EmptyStr}
    IN  [t \in keep \cup (DOMAIN base \ DOMAIN local) |->
            IF t \in keep THEN local[t] ELSE base[t]]

\* C3: after rebaseCommonAttrsOn on a present base the attributes are those
\* of the per-key rule, also when the local map was empty, and a result
\* without entries is stored as an absent map.
C3_RebaseResult ==
    (Rebased /\ ~IsNull(last.arg.base)) =>
        /\ AttrContents(se.mAttrs)
              = PerKeyRule(AttrContents(last.arg.pre), Deref(last.arg.base))
        /\ ~IsNull(se.mAttrs) => DOMAIN Deref(se.mAttrs) # {}

C3_Witness ==
    /\ Rebased
    /\ ~IsNull(last.arg.base)
    /\ AttrContents(last.arg.pre) = (nameTag :> EmptyStr @@ coverTag :> <<65>>)
    /\ Deref(last.arg.base) = (nameTag :> <<66>> @@ coverTag :> <<66>>)
    /\ se.mAttrs = Some(coverTag :> <<65>>)

Decrypted == last.op = "decryptAttributes"

HoldsBlob(e) == ~IsNull(e.mEncryptedAttrs) /\ Deref(e.mEncryptedAttrs) # EmptyStr

\* C4: decryptAttributes on a non-empty blob with a failing function returns
\* false and leaves the entity as it was; a later call with a succeeding
\* function decrypts that blob.
C4_FailedDecryptInert ==
    [][ /\ (Decrypted' /\ HoldsBlob(se) /\ ~last'.arg.fOk) =>
              /\ last'.ret = FALSE
              /\ se' = se
        /\ (Decrypted /\ last.ret = FALSE /\ Decrypted' /\ last'.arg.fOk) =>
              /\ last'.ret = TRUE
              /\ last'.arg.called
              /\ last'.arg.blob = se.mEncryptedAttrs
              /\ IsNull(se'.mEncryptedAttrs)
              /\ se'.mAttrs = Some(last'.arg.fOut)
      ]_vars

C4_Witness ==
    /\ Decrypted
    /\ last.ret = FALSE
    /\ last.arg.called
    /\ last.arg.fOut # EmptyMap
    /\ HoldsBlob(se)
    /\ ~IsNull(se.mAttrs)

Updated(kind) == last.op = "updateWith" /\ se.kind = kind

\* C5: SetElement::updateWith replaces the attribute map with incoming's when
\* incoming carries attributes or its cleared flag is set, and then only; with
\* neither, the map and the name-change bit are as before; with the flag and
\* no attributes the map becomes empty.
C5_MemberAttrRetention ==
    [][ Updated("SetElement")' =>
          LET el == last'.arg
              replace == ~IsNull(el.mAttrs) \/ el.mAttrsClearedByLastUpdate
          IN  /\ replace => se'.mAttrs = el.mAttrs
              /\ ~replace =>
                    /\ se'.mAttrs = se.mAttrs
                    /\ (CH_EL_NAME \in se'.mChanges) = (CH_EL_NAME \in se.mChanges)
              /\ (IsNull(el.mAttrs) /\ el.mAttrsClearedByLastUpdate) =>
                    AttrContents(se'.mAttrs) = EmptyMap
      ]_vars

C5_Witness ==
    /\ Updated("SetElement")
    /\ IsNull(last.arg.mAttrs)
    /\ ~last.arg.mAttrsClearedByLastUpdate
    /\ se.mAttrs = Some(nameTag :> <<65>>)
    /\ CH_EL_NAME \notin se.mChanges

\* C6 as stated: in any state, Set::updateWith returns true with the
\* name-change bit set when the incoming name differs from the local one, and
\* false with the bit not set when incoming name and cover equal the local.
C6_SetChangeBits ==
    [][ Updated("Set")' =>
          LET s == last'.arg
              sameName == AttrValue(s.mAttrs, nameTag) = AttrValue(se.mAttrs, nameTag)
              sameCover == AttrValue(s.mAttrs, coverTag) = AttrValue(se.mAttrs, coverTag)
          IN  /\ ~sameName => (last'.ret = TRUE /\ CH_NAME \in se'.mChanges)
              /\ (sameName /\ sameCover) =>
                    (last'.ret = FALSE /\ CH_NAME \notin se'.mChanges)
      ]_vars

\* C6 amended: Set::updateWith returns true with the name-change bit set when
\* the incoming name differs from the local one; when incoming name and cover
\* equal the local ones it adds no bit, so it returns false with the bit not
\* set only if no change bit was set before the call.
C6_SetChangeBitsAccumulate ==
    [][ Updated("Set")' =>
          LET s == last'.arg
              sameName == AttrValue(s.mAttrs, nameTag) = AttrValue(se.mAttrs, nameTag)
              sameCover == AttrValue(s.mAttrs, coverTag) = AttrValue(se.mAttrs, coverTag)
          IN  /\ ~sameName => (last'.ret = TRUE /\ CH_NAME \in se'.mChanges)
              /\ (sameName /\ sameCover) =>
                    /\ se'.mChanges = se.mChanges
                    /\ last'.ret = (se.mChanges # {})
      ]_vars

C6_Witness ==
    /\ Updated("Set")
    /\ last.ret = FALSE
    /\ se.mTs = MaxTs
    /\ AttrValue(se.mAttrs, nameTag) = <<65>>
    /\ AttrValue(se.mAttrs, coverTag) = <<66>>

\* C8: setOrder(v) sets the order-change bit when the order was absent or
\* differed from v and changes nothing when it equalled v; afterwards the
\* order is present and equals v, and no call makes a present order absent.
C8_OrderChangeDetection ==
    [][ /\ (last'.op = "setOrder") =>
              /\ se'.mOrder = Some(last'.arg)
              /\ (IsNull(se.mOrder) \/ Deref(se.mOrder) # last'.arg) =>
                    se' = [se EXCEPT !.mOrder = Some(last'.arg),
                                     !.mChanges = @ \cup {CH_EL_ORDER}]
              /\ (~IsNull(se.mOrder) /\ Deref(se.mOrder) = last'.arg) => se' = se
        /\ ~IsNull(se.mOrder) => ~IsNull(se'.mOrder)
      ]_vars

C8_Witness ==
    /\ last.op = "setOrder"
    /\ last.arg = 0
    /\ se.mOrder = Some(0)
    /\ se.mChanges = {CH_EL_ORDER}

\* C9: updateWith leaves id, owner, set id, node handle, key and encrypted
\* blob as they were, and the timestamp is the incoming one.
C9_UpdatePreservesIdentity ==
    [][ (last'.op = "updateWith") =>
          /\ SameIdentity(se', se)
          /\ se'.mEncryptedAttrs = se.mEncryptedAttrs
          /\ se'.mAttrsClearedByLastUpdate = se.mAttrsClearedByLastUpdate
          /\ se'.mTs = last'.arg.mTs
      ]_vars

C9_Witness ==
    /\ last.op = "updateWith"
    /\ last.arg.mId # se.mId
    /\ last.arg.mKey # se.mKey
    /\ last.arg.mTs = 0
    /\ se.mTs = 0
    /\ se.mAttrs = last.arg.mAttrs
    /\ ~IsNull(se.mAttrs)

\* NotReceived, ReceivedEmpty, ReceivedEncrypted or Decrypted
InDocumentedState(e) ==
    \/ IsNull(e.mEncryptedAttrs)
    \/ e.mEncryptedAttrs = Some(EmptyStr) /\ e.mAttrs = Some(EmptyMap)
    \/ HoldsBlob(e) /\ IsNull(e.mAttrs)

BlobDiscardedOnlyByDecrypt ==
    /\ ~IsNull(se.mEncryptedAttrs) =>
          \/ se'.mEncryptedAttrs = se.mEncryptedAttrs
          \/ IsNull(se'.mEncryptedAttrs) /\ Decrypted' /\ last'.ret = TRUE
    /\ (Decrypted' /\ IsNull(se.mEncryptedAttrs)) =>
          (last'.ret = TRUE /\ ~last'.arg.called /\ se' = se)

\* C10 as stated: every reachable state is one of the four documented states,
\* and the blob is discarded only by a decryptAttributes that returns true,
\* after which decryptAttributes returns true without invoking the function.
C10_StateMachine ==
    [][InDocumentedState(se') /\ BlobDiscardedOnlyByDecrypt]_vars

\* C10 amended: decryptAttributes and encryptAttributes keep an entity in the
\* four documented states, while setAttr, rebaseCommonAttrsOn and updateWith
\* change the attribute map whether or not a blob is held; the blob is
\* discarded only by a decryptAttributes that returns true, after which
\* decryptAttributes returns true without invoking the function.
C10_DecryptKeepsStateMachine ==
    [][ /\ (InDocumentedState(se) /\ (Decrypted' \/ last'.op = "encryptAttributes"))
              => InDocumentedState(se')
        /\ BlobDiscardedOnlyByDecrypt
      ]_vars

C10_Witness ==
    /\ Decrypted
    /\ last.ret = TRUE
    /\ last.arg.called
    /\ IsNull(se.mEncryptedAttrs)
    /\ se.mAttrs = Some(last.arg.fOut)
    /\ last.arg.fOut # EmptyMap

====
